---- MODULE Spec2Model ----
(***************************************************************************)
(* Boss-hunt engine of ragnarok-x-bot-osx (src/boss_bot.py), as a state    *)
(* machine: the fields of BossFarmingBot, the controller entry points      *)
(* start(), stop(), update_selection(), and the worker threads running     *)
(* _main_loop.                                                             *)
(*                                                                         *)
(* Granularity.  A worker step is the code a thread runs between two       *)
(* blocking calls (time.sleep, OCR, screenshot, click, the log callback,   *)
(* which goes through call_from_thread): the result of the blocking call   *)
(* that ended is chosen at the start of the step, and the assignments that *)
(* follow it up to the next blocking call are made in the same step.       *)
(* The row scan of _handle_check_status, whose OCR calls have only writes  *)
(* of boss_timers and _found_row_idx between them, is one step.  start(),  *)
(* stop() and update_selection() are one step each.                        *)
(*                                                                         *)
(* Perception (OCR text, brightness, window lookup) is an input: each step *)
(* draws its result from a small set; so are the files read by start() and *)
(* the clock read by _handle_fighting.  Any perception or input call may   *)
(* raise; Raise(w) is that call raising at the thread's current position.  *)
(*                                                                         *)
(* Threads.  The threads that run _main_loop occupy slots; start() makes a *)
(* thread when a slot is free (its thread has not been made, or has left   *)
(* the loop).  Spec has MaxWorkers slots and every handler.  ThreadSpec    *)
(* has MaxThreads slots, so that start() can make a thread while the       *)
(* thread of an earlier start() is still alive, and follows the threads    *)
(* through the main loop and _handle_idle.  FairSpec is Spec with threads  *)
(* that keep being scheduled.                                              *)
(*                                                                         *)
(* History.  everStopped, found_in_hunt, trail and trail_exc record what   *)
(* has happened (a stop(), a find since the last IDLE, the states at the   *)
(* ends of the ticks since a death, an exception among those ticks);       *)
(* clicks, clicker, go_click, checks, err and wrote record what the latest *)
(* step or the current tick did (checks: the results of its minimap and    *)
(* death checks); scan, ocr and ch_read hold the rows, the count of        *)
(* rows and scrolls, and the channel indicator that the current tick or    *)
(* the latest step has read, and new_win what the tick's                   *)
(* find_game_window() returned.  opened_tab and renav_target are kept only *)
(* by CycleSpec and HuntSpec: the tab that _handle_open_panel clicked for  *)
(* the cycle under way, and the target that _handle_re_navigate went back  *)
(* for.  No step reads them.                                               *)
(*                                                                         *)
(* Files.  boss_config is the selection that boss_config.json holds, read  *)
(* by start() and written by update_selection(); boss_layout is the        *)
(* calibration of the panel in the layout file, which no step writes.      *)
(* win is the origin of the game window that start() or the latest tick    *)
(* found, among origins, and boss_pos the positions that                   *)
(* get_boss_positions() made for it.                                       *)
(*                                                                         *)
(* Inputs.  ChannelSpec, TimerSpec, PagesSpec, RowsSpec, ArrivalSpec and   *)
(* GoSpec run the handlers up to the one they study with a wider set of    *)
(* inputs for it (every digit run of the channel indicator, two timer      *)
(* texts, text in any row of the two pages, text in two rows, the          *)
(* snapshots of a whole walk, every calibration of Calibrations) than Spec *)
(* gives it.  CycleSpec runs the handlers of the panel with                *)
(* update_selection(); HuntSpec runs every handler with a selection that   *)
(* is not edited, under fair scheduling; WindowSpec runs start(), stop()   *)
(* and the window refresh of the main loop with a window that moves over   *)
(* WindowOrigins.                                                          *)
(***************************************************************************)
EXTENDS Integers, Sequences, FiniteSets, TLC

\* ------------------------------------------------------------------ bounds
MaxWorkers == 1        \* threads alive at the same time
MaxThreads == 2        \* the same, where the restart of the engine is studied
MaxDeaths == 1         \* cap of the death counter
IdleSeconds == 1       \* check_interval (30 in the source), in 1 s sleeps
MaxLoadPolls == 1      \* polls of _wait_for_loading_screen before MAX_WAIT
MaxArrivePolls == 1    \* polls of _wait_for_arrival before MAX_WAIT
FightingTimeout == 1   \* FIGHTING_TIMEOUT (90 s in the source), in time units
MaxEntriesShown == 1   \* rows of the monster dropdown that show text
MaxRowsShown == 1      \* rows of a panel page that show text
MaxRowsScanned == 2    \* rows of the two pages that show text, scan by scan
MaxRowHeight == 3      \* row height of a calibrated panel
MaxFirstY == 1         \* Y offset of the top of the first row
MaxOrigin == 1         \* X and Y of the origin of the window
MaxChannel == 20       \* channels of the game whose indicator is read
ArrivalPolls == 8      \* snapshots of a walk to the boss before MAX_WAIT

\* --------------------------------------------------------------- constants
MAX_RETRIES == 3       \* attempts to open the panel / the channel modal
ROWS_PER_PAGE == 4     \* for row_idx in range(4)
PAGES == 2             \* for page in range(2)
POLL_INTERVAL == 3     \* 1.5 s, in units of 0.5 s
STABLE_DURATION == 10  \* 5.0 s, in units of 0.5 s

None == "None"

\* The catalog, one boss per category (the source lists eight of each).
MVP_BOSSES == {"Eddga"}
MINI_BOSSES == {"Toad"}
ALL_BOSSES == MVP_BOSSES \cup MINI_BOSSES

BossState == {"IDLE", "SWITCH_CH1", "OPEN_PANEL", "CHECK_STATUS", "CLICK_GO",
              "START_ATTACK", "FIGHTING", "DEAD", "RESURRECT", "RE_NAVIGATE"}

\* What load_layout() can return: no file, a layout without a "boss" section,
\* an empty "boss" section, a calibrated one.
LayoutKinds == {"none", "noboss", "empty", "ok"}

VARIABLES
  \* BossFarmingBot fields
  state, running, target_boss, target_is_mvp, deaths, bosses_killed,
  current_channel, selected_mvps, selected_minis, boss_timers,
  checking_mvp_tab, found_row_idx,
  layout, win_set, boss_pos_ok,
  \* the origin of the window in _win and the positions in _boss_pos, when
  \* there are any; the origins at which the window can be found
  win, boss_pos, origins,
  \* the selection that boss_config.json holds; the calibration that the
  \* "boss" section of the layout file holds
  boss_config, boss_layout,
  \* worker threads: position and locals
  pc, k, nxt, targets, new_win, arrival,
  \* the clicks of the latest step and the thread that issued them (0: none)
  clicks, clicker,
  \* whether a worker's latest step was an exception reaching the except
  \* clause; whether its tick has assigned self.state
  err, wrote,
  \* the rows a worker has read from the panel in its tick, how many of them
  \* it has read and the scrolls down it has made; the channel indicator read
  \* by the latest step
  scan, ocr, ch_read,
  \* the tab that _handle_open_panel clicked for the check cycle under way;
  \* the target that _handle_re_navigate has gone back for
  opened_tab, renav_target,
  \* the Y that the latest step has passed to click_at for the Go button;
  \* what its checks of the minimap region or of the death popup have given
  go_click, checks,
  \* history, for stating the properties
  everStopped, found_in_hunt, trail, trail_exc

vars == <<state, running, target_boss, target_is_mvp, deaths, bosses_killed,
          current_channel, selected_mvps, selected_minis, boss_timers,
          checking_mvp_tab, found_row_idx,
          layout, win_set, boss_pos_ok, win, boss_pos, origins,
          boss_config, boss_layout,
          pc, k, nxt, targets, new_win, arrival, clicks, clicker, err, wrote,
          scan, ocr, ch_read, opened_tab, renav_target, go_click, checks,
          everStopped, found_in_hunt, trail, trail_exc>>

\* The thread slots of the run (fixed by the initial state).
Workers == DOMAIN pc

\* ----------------------------------------------------------------- helpers
Get(u, f, d) == IF f \in DOMAIN u THEN u[f] ELSE d

Min(a, b) == IF a < b THEN a ELSE b

Rep(n, x) == [i \in 1..n |-> x]

IsPrefix(s, t) == Len(s) <= Len(t) /\ SubSeq(t, 1, Len(s)) = s

DeathSequence == <<"FIGHTING", "DEAD", "RESURRECT", "RE_NAVIGATE", "OPEN_PANEL">>

\* The locals of _wait_for_arrival outside the call; no row read; no channel
\* indicator read.
NoArrival == [stable |-> 0, below |-> 0, late |-> FALSE, status |-> "none"]

NoScan == << >>

NoGo == [clicked |-> FALSE, y |-> 0]

NoOcr == [ocrs |-> 0, scrolls |-> <<>>]

NoRead == [raw |-> <<>>, num |-> <<>>, popup |-> <<>>, read |-> FALSE]

\* The history variables follow the writes of a step: g holds the fields the
\* step assigns, tickEnds says the worker goes back to the while test.
TrailAfter(g, tickEnds, interrupt) ==
  LET st == Get(g, "state", state)
      started == "state" \in DOMAIN g /\ g.state = "DEAD"
  IN IF interrupt THEN <<>>
     ELSE IF started THEN <<"FIGHTING", "DEAD">>
     ELSE IF tickEnds /\ trail # <<>>
          THEN IF Len(trail) >= Len(DeathSequence) THEN <<>> ELSE Append(trail, st)
     ELSE trail

FoundAfter(g) ==
  IF "state" \notin DOMAIN g THEN found_in_hunt
  ELSE IF g.state = "IDLE" THEN FALSE
  ELSE IF g.state = "CLICK_GO" THEN TRUE
  ELSE found_in_hunt

\* One step: g gives the new values of the engine fields the step assigns, l
\* those of the locals of worker w (w = 0: a controller step); every other
\* variable is unchanged.
Apply(w, g, l, interrupt) ==
  LET tickEnds == w # 0 /\ Get(l, "pc", "") \in {"loop"}
      raised == Get(l, "err", FALSE)
  IN
  /\ state' = Get(g, "state", state)
  /\ running' = Get(g, "running", running)
  /\ target_boss' = Get(g, "target_boss", target_boss)
  /\ target_is_mvp' = Get(g, "target_is_mvp", target_is_mvp)
  /\ deaths' = Get(g, "deaths", deaths)
  /\ bosses_killed' = Get(g, "bosses_killed", bosses_killed)
  /\ current_channel' = Get(g, "current_channel", current_channel)
  /\ selected_mvps' = Get(g, "selected_mvps", selected_mvps)
  /\ selected_minis' = Get(g, "selected_minis", selected_minis)
  /\ boss_timers' = Get(g, "boss_timers", boss_timers)
  /\ checking_mvp_tab' = Get(g, "checking_mvp_tab", checking_mvp_tab)
  /\ found_row_idx' = Get(g, "found_row_idx", found_row_idx)
  /\ layout' = Get(g, "layout", layout)
  /\ win_set' = Get(g, "win_set", win_set)
  /\ boss_pos_ok' = Get(g, "boss_pos_ok", boss_pos_ok)
  /\ win' = Get(g, "win", win)
  /\ boss_pos' = Get(g, "boss_pos", boss_pos)
  /\ origins' = origins
  /\ boss_config' = Get(g, "boss_config", boss_config)
  /\ boss_layout' = boss_layout
  /\ pc' = IF w = 0 THEN Get(l, "pcs", pc) ELSE [pc EXCEPT ![w] = Get(l, "pc", pc[w])]
  /\ k' = IF w = 0 THEN k ELSE [k EXCEPT ![w] = Get(l, "k", k[w])]
  /\ nxt' = IF w = 0 THEN nxt ELSE [nxt EXCEPT ![w] = Get(l, "nxt", nxt[w])]
  /\ targets' = IF w = 0 THEN targets ELSE [targets EXCEPT ![w] = Get(l, "targets", targets[w])]
  /\ new_win' = IF w = 0 THEN new_win ELSE [new_win EXCEPT ![w] = Get(l, "new_win", FALSE)]
  /\ arrival' = IF w = 0 THEN arrival ELSE [arrival EXCEPT ![w] = Get(l, "arrival", NoArrival)]
  /\ scan' = IF w = 0 THEN scan
             ELSE [scan EXCEPT ![w] = IF tickEnds THEN NoScan ELSE Get(l, "scan", scan[w])]
  /\ ocr' = IF w = 0 THEN ocr
            ELSE [ocr EXCEPT ![w] = IF tickEnds THEN NoOcr ELSE Get(l, "ocr", ocr[w])]
  /\ ch_read' = Get(l, "ch_read", NoRead)
  /\ opened_tab' = IF "opened_tab" \in DOMAIN l THEN l.opened_tab
                   ELSE IF "state" \in DOMAIN g /\ g.state # "CHECK_STATUS"
                        THEN None ELSE opened_tab
  /\ renav_target' = IF "renav_target" \in DOMAIN l THEN l.renav_target
                     ELSE IF "state" \in DOMAIN g /\ g.state \in {"IDLE", "CLICK_GO"}
                          THEN None ELSE renav_target
  /\ go_click' = Get(l, "go_click", NoGo)
  /\ checks' = Get(l, "checks", <<>>)
  /\ clicks' = Get(l, "clicks", <<>>)
  /\ clicker' = IF Get(l, "clicks", <<>>) = <<>> THEN 0 ELSE w
  /\ err' = IF w = 0 THEN err ELSE [err EXCEPT ![w] = Get(l, "err", FALSE)]
  /\ wrote' = IF w = 0 THEN wrote
              ELSE [wrote EXCEPT ![w] = Get(l, "wrote", wrote[w] \/ "state" \in DOMAIN g)]
  /\ everStopped' = Get(l, "everStopped", everStopped)
  /\ found_in_hunt' = FoundAfter(g)
  /\ trail' = IF Get(l, "everStopped", everStopped) THEN <<>>
               ELSE TrailAfter(g, tickEnds, interrupt)
  /\ trail_exc' = IF trail' = <<>> THEN FALSE
                  ELSE IF "state" \in DOMAIN g /\ g.state = "DEAD" THEN FALSE
                  ELSE trail_exc \/ (tickEnds /\ raised)

\* A worker step that ends the handler: back to the while test of _main_loop.
EndTick == [pc |-> "loop", k |-> 0, nxt |-> "IDLE", targets |-> {}]

\* ------------------------------------------------------------------- Init
\* What boss_config.json can hold (no file: two empty lists).
BossConfigs == [selected_mvps : SUBSET MVP_BOSSES, selected_minis : SUBSET MINI_BOSSES]

\* The calibration of the panel that calibrate_boss has saved: the Y offsets of
\* the top of the first row and of the Go button, and the row height (src/
\* shared.py 257-277).  get_boss_positions adds the Y of the window to both
\* offsets (src/shared.py 305-311).
Calibrated == [first_y |-> 0, go_y |-> 1, row_h |-> 3]

\* The calibrations with a row height up to MaxRowHeight whose Go button lies
\* in one of the ROWS_PER_PAGE rows below the top of the first row (with no
\* row height: within ROWS_PER_PAGE of it).
Calibrations ==
  {c \in [first_y : 0..MaxFirstY, go_y : 0..(MaxFirstY + ROWS_PER_PAGE * MaxRowHeight),
          row_h : 0..MaxRowHeight] :
     /\ c.first_y <= c.go_y
     /\ c.go_y < c.first_y + ROWS_PER_PAGE * (IF c.row_h = 0 THEN 1 ELSE c.row_h)}

\* The "boss" section of a calibrated layout file: the offsets of two of the
\* point anchors, the scroll region and the scalar entries, as calibrate_boss
\* saves them (src/shared.py 250-277).
BossSection(lay) ==
  [first_boss_row |-> <<0, lay.first_y>>,
   go_button |-> <<2, lay.go_y>>,
   panel_scroll_region |-> <<0, lay.first_y, 2, ROWS_PER_PAGE * lay.row_h>>,
   row_height |-> lay.row_h,
   visible_rows |-> ROWS_PER_PAGE,
   scroll_distance |-> ROWS_PER_PAGE * lay.row_h]

SCALAR_KEYS == {"row_height", "visible_rows", "scroll_distance"}

\* A get_boss_positions that adds the origin of the window to every entry.
get_boss_positions_All(o, boss) ==
  [key \in DOMAIN boss |->
     IF key \in SCALAR_KEYS THEN boss[key] + o[2]
     ELSE IF key = "panel_scroll_region"
     THEN <<o[1] + boss[key][1], o[2] + boss[key][2],
            o[1] + boss[key][3], o[2] + boss[key][4]>>
     ELSE <<o[1] + boss[key][1], o[2] + boss[key][2]>>]

\* get_boss_positions(win, layout), for a layout with the "boss" section boss
\* and a window at origin o: src/shared.py 298-313.
get_boss_positions(o, boss) ==
  [key \in DOMAIN boss |->
     IF key \in SCALAR_KEYS THEN boss[key]
     ELSE IF key = "panel_scroll_region"
     THEN <<o[1] + boss[key][1], o[2] + boss[key][2], boss[key][3], boss[key][4]>>
     ELSE <<o[1] + boss[key][1], o[2] + boss[key][2]>>]

\* No positions: _boss_pos is None or {}.
NoPositions == [key \in {} |-> 0]

\* What get_boss_positions gives for a layout of kind lay and a window at o.
PositionsOf(lay, o) ==
  IF lay = "ok" THEN get_boss_positions(o, BossSection(boss_layout)) ELSE NoPositions

\* The origin kept while there is no window.
NoWindow == <<0, 0>>

\* The origins of a window that moves over the screen.
WindowOrigins == (0..MaxOrigin) \X (0..MaxOrigin)

\* The state after BossFarmingBot.__init__ (src/boss_bot.py 79-105), with any
\* boss_config.json on the disk, a layout file of Layouts and a window that
\* can be found at the origins Origins.
InitOf(n, Layouts, Origins) ==
  /\ boss_config \in BossConfigs
  /\ boss_layout \in Layouts
  /\ origins = Origins
  /\ win = NoWindow /\ boss_pos = NoPositions
  /\ state = "IDLE" /\ running = FALSE
  /\ target_boss = None /\ target_is_mvp = TRUE
  /\ deaths = 0 /\ bosses_killed = 0 /\ current_channel = "?"
  /\ selected_mvps = {} /\ selected_minis = {}
  /\ boss_timers = [b \in ALL_BOSSES |-> None]
  /\ checking_mvp_tab = TRUE /\ found_row_idx = 0
  /\ layout = "none" /\ win_set = FALSE /\ boss_pos_ok = FALSE
  /\ pc = [w \in 1..n |-> "none"]
  /\ k = [w \in 1..n |-> 0]
  /\ nxt = [w \in 1..n |-> "IDLE"]
  /\ targets = [w \in 1..n |-> {}]
  /\ new_win = [w \in 1..n |-> FALSE]
  /\ arrival = [w \in 1..n |-> NoArrival]
  /\ scan = [w \in 1..n |-> NoScan]
  /\ ocr = [w \in 1..n |-> NoOcr]
  /\ ch_read = NoRead
  /\ opened_tab = None /\ renav_target = None
  /\ go_click = NoGo /\ checks = <<>>
  /\ clicks = <<>> /\ clicker = 0
  /\ err = [w \in 1..n |-> FALSE]
  /\ wrote = [w \in 1..n |-> FALSE]
  /\ everStopped = FALSE /\ found_in_hunt = FALSE
  /\ trail = <<>> /\ trail_exc = FALSE

InitWith(n) == InitOf(n, {Calibrated}, {NoWindow})

Init == InitWith(MaxWorkers)

\* ------------------------------------------------------------- controller
Alive(w) == pc[w] \notin {"none", "exited"}

\* The slot of the thread a start() creates.
FreeSlot == CHOOSE w \in Workers : ~Alive(w) /\ \A v \in Workers : ~Alive(v) => w <= v

\* A start() that does not look at the selection.
Start_AnySelection ==
  /\ ~running
  /\ \E lay \in LayoutKinds, found \in BOOLEAN :
       LET mvps == boss_config.selected_mvps
           minis == boss_config.selected_minis
           sel == [selected_mvps |-> mvps, selected_minis |-> minis]
       IN IF lay \in {"none", "noboss"}
          THEN Apply(0, sel @@ [layout |-> lay], << >>, FALSE)
          ELSE IF ~found
          THEN Apply(0, sel @@ [layout |-> lay, win_set |-> FALSE, win |-> NoWindow],
                     << >>, FALSE)
          ELSE /\ \E w \in Workers : ~Alive(w)
               /\ \E o \in origins :
                    Apply(0, sel @@ [layout |-> lay, win_set |-> TRUE, win |-> o,
                                     boss_pos_ok |-> (lay = "ok"),
                                     boss_pos |-> PositionsOf(lay, o),
                                     running |-> TRUE, state |-> "IDLE"],
                          [pcs |-> [pc EXCEPT ![FreeSlot] = "loop"]], TRUE)

\* start(): src/boss_bot.py 109-136.  Returns at once when running; otherwise
\* loads the selection (mvps, minis: what boss_config.json holds), the layout
\* and the window, and only when all three are there sets running and state
\* and starts a new thread on _main_loop.
Start ==
  /\ ~running
  /\ \E lay \in LayoutKinds, found \in BOOLEAN :
       LET mvps == boss_config.selected_mvps
           minis == boss_config.selected_minis
           sel == [selected_mvps |-> mvps, selected_minis |-> minis]
       IN IF mvps = {} /\ minis = {}
          THEN Apply(0, sel, << >>, FALSE)
          ELSE IF lay \in {"none", "noboss"}
          THEN Apply(0, sel @@ [layout |-> lay], << >>, FALSE)
          ELSE IF ~found
          THEN Apply(0, sel @@ [layout |-> lay, win_set |-> FALSE, win |-> NoWindow],
                     << >>, FALSE)
          ELSE /\ \E w \in Workers : ~Alive(w)
               /\ \E o \in origins :
                    Apply(0, sel @@ [layout |-> lay, win_set |-> TRUE, win |-> o,
                                     boss_pos_ok |-> (lay = "ok"),
                                     boss_pos |-> PositionsOf(lay, o),
                                     running |-> TRUE, state |-> "IDLE"],
                          [pcs |-> [pc EXCEPT ![FreeSlot] = "loop"]], TRUE)

\* stop(): src/boss_bot.py 138-142.
Stop ==
  /\ Apply(0, [running |-> FALSE, state |-> "IDLE", target_boss |-> None],
           [everStopped |-> TRUE], TRUE)
  /\ ~running'

\* An update that adds the lists to the selection and saves what it was given.
UpdateSelection_Adds ==
  \E mvps \in SUBSET MVP_BOSSES, minis \in SUBSET MINI_BOSSES :
    /\ Apply(0, [selected_mvps |-> selected_mvps \cup mvps,
                 selected_minis |-> selected_minis \cup minis,
                 boss_config |-> [selected_mvps |-> mvps, selected_minis |-> minis]],
             << >>, FALSE)
    /\ running' = running

\* update_selection(mvps, minis): src/boss_bot.py 144-152; save_boss_config
\* writes the two lists to boss_config.json (src/shared.py 125-128).
UpdateSelection ==
  \E mvps \in SUBSET MVP_BOSSES, minis \in SUBSET MINI_BOSSES :
    /\ Apply(0, [selected_mvps |-> mvps, selected_minis |-> minis,
                 boss_config |-> [selected_mvps |-> mvps, selected_minis |-> minis]],
             << >>, FALSE)
    /\ running' = running

\* -------------------------------------------------------------- main loop
\* A main loop that does not test running.
LoopTest_Forever(w) ==
  /\ pc[w] = "loop"
  /\ Apply(w, << >>, [pc |-> "tick", k |-> 0, wrote |-> FALSE], FALSE)

\* while self.running: src/boss_bot.py 157.
LoopTest(w) ==
  /\ pc[w] = "loop"
  /\ IF running
     THEN Apply(w, << >>, [pc |-> "tick", k |-> 0, wrote |-> FALSE], FALSE)
     ELSE Apply(w, << >>, [pc |-> "exited", k |-> 0, wrote |-> FALSE], FALSE)

\* find_game_window() and get_boss_positions(): src/boss_bot.py 159-168.  A
\* window that is not found leaves _win and _boss_pos as they were; the tick is
\* skipped only when _boss_pos is empty.  new_win[w] is what this tick's
\* find_game_window() returned, up to the loading check.
RefreshWindow(w) ==
  /\ pc[w] = "tick"
  /\ \E found \in BOOLEAN, o \in origins :
       LET ws == win_set \/ found
           bp == IF found THEN layout = "ok" ELSE boss_pos_ok
           at == IF found THEN o ELSE win
       IN IF found /\ layout = "none"
          THEN \* get_boss_positions(win, None) raises TypeError
               Apply(w, [win_set |-> ws, win |-> at], EndTick @@ [err |-> TRUE], FALSE)
          ELSE Apply(w, [win_set |-> ws, win |-> at, boss_pos_ok |-> bp,
                         boss_pos |-> IF found THEN PositionsOf(layout, o)
                                      ELSE boss_pos],
                     IF bp THEN [pc |-> "tick_load", new_win |-> found] ELSE EndTick,
                     FALSE)

HandlerPc(s) ==
  CASE s = "IDLE" -> "idle"
    [] s = "SWITCH_CH1" -> "switch"
    [] s = "OPEN_PANEL" -> "open"
    [] s = "CHECK_STATUS" -> "check"
    [] s = "CLICK_GO" -> "go"
    [] s = "START_ATTACK" -> "attack"
    [] s = "FIGHTING" -> "fight"
    [] s = "DEAD" -> "dead"
    [] s = "RESURRECT" -> "resurrect"
    [] s = "RE_NAVIGATE" -> "renav"

\* The locals a handler starts with.
HandlerEntry(s) ==
  [pc |-> HandlerPc(s),
   k |-> IF s = "IDLE" THEN IdleSeconds ELSE 0,
   targets |-> IF s = "CHECK_STATUS"
               THEN (IF checking_mvp_tab THEN selected_mvps ELSE selected_minis)
               ELSE {}]

\* _detect_loading_screen() at the top of the tick, then the dispatch on
\* self.state: src/boss_bot.py 173-198, 727-742.  The thread enters the handler
\* of the state it reads here; the handler runs from its next step.
Dispatch(w) ==
  /\ pc[w] = "tick_load"
  /\ \E is_dark \in BOOLEAN :
       IF win_set /\ is_dark
       THEN Apply(w, << >>, [pc |-> "loadwait", k |-> MaxLoadPolls], TRUE)
       ELSE Apply(w, << >>, HandlerEntry(state), FALSE)

\* _wait_for_loading_screen(): src/boss_bot.py 744-759.  The loop ends when the
\* screen is bright again, when MAX_WAIT has passed or when running is false.
WaitForLoading(w, done, timeout) ==
  IF ~running \/ k[w] = 0
  THEN Apply(w, << >>, [pc |-> timeout, k |-> 0], FALSE)
  ELSE \E bright \in BOOLEAN :
         IF bright
         THEN Apply(w, << >>, [pc |-> done, k |-> 0], FALSE)
         ELSE Apply(w, << >>, [k |-> k[w] - 1], FALSE)

\* if self._detect_loading_screen(): self._wait_for_loading_screen(): 173-174.
LoadingWait(w) ==
  /\ pc[w] = "loadwait"
  /\ WaitForLoading(w, "load_done", "load_timeout")

\* An interrupt that forces the channel check only when the screen came back.
LoadingInterrupt_KeepsState(w) ==
  /\ pc[w] \in {"load_done", "load_timeout"}
  /\ IF pc[w] = "load_done"
     THEN Apply(w, [state |-> "SWITCH_CH1"], EndTick, TRUE)
     ELSE Apply(w, << >>, EndTick, TRUE)

\* self.state = BossState.SWITCH_CH1; continue: src/boss_bot.py 176-177.
LoadingInterrupt(w) ==
  /\ pc[w] \in {"load_done", "load_timeout"}
  /\ Apply(w, [state |-> "SWITCH_CH1"], EndTick, TRUE)

\* except Exception: log, sleep(3): src/boss_bot.py 200-202.  The positions
\* where a perception or input call is pending.
RaisePoints ==
  {"tick", "tick_load", "loadwait", "switch", "open", "open_set", "check",
   "check_end", "go", "go_loadwait", "go_ensure", "go_minimap", "go_arrive", "attack",
   "attack_select", "fight", "resurrect"}

\* An except clause that sends the machine back to IDLE.
Raise_ToIdle(w) ==
  /\ pc[w] \in RaisePoints
  /\ Apply(w, [state |-> "IDLE"], EndTick @@ [err |-> TRUE], FALSE)

Raise(w) ==
  /\ pc[w] \in RaisePoints
  /\ Apply(w, << >>, EndTick @@ [err |-> TRUE], FALSE)

\* --------------------------------------------------------------- handlers
\* _handle_idle: src/boss_bot.py 206-217.
HandleIdle(w) ==
  /\ pc[w] = "idle"
  /\ IF k[w] > 0
     THEN IF ~running
          THEN Apply(w, << >>, EndTick, FALSE)
          ELSE Apply(w, << >>, [k |-> k[w] - 1], FALSE)
     ELSE Apply(w, [state |-> "SWITCH_CH1"], EndTick, FALSE)

\* The digit run after "ch" (<<>>: the text has no match), and the channel
\* number the code takes from it: src/boss_bot.py 235-244, 678-686.
RawDigits == {<<>>, <<1>>, <<2>>, <<1, 1>>, <<2, 1>>, <<1, 0, 1>>}

\* The digits the indicator shows on channel n, and the runs the OCR gives
\* when it reads them as they are or with the arrow read as a "1"
\* (src/boss_bot.py 227-230), or reads one digit, or nothing after "ch".
DigitsOf(n) == IF n < 10 THEN <<n>> ELSE <<n \div 10, n % 10>>

DigitRuns ==
  {<<>>} \cup {<<d>> : d \in 0..9}
         \cup {DigitsOf(n) : n \in 1..MaxChannel}
         \cup {DigitsOf(n) \o <<1>> : n \in 1..MaxChannel}

\* A normalization that drops a trailing "1" from a run of any length.
channel_num_AnyLength(raw_digits) ==
  IF raw_digits = <<>> THEN <<>>
  ELSE IF raw_digits[Len(raw_digits)] = 1
       THEN SubSeq(raw_digits, 1, Len(raw_digits) - 1)
       ELSE raw_digits

channel_num(raw_digits) ==
  IF raw_digits = <<>> THEN <<>>   \* channel_num = None
  ELSE IF Len(raw_digits) > 1 /\ raw_digits[Len(raw_digits)] = 1
       THEN SubSeq(raw_digits, 1, Len(raw_digits) - 1)
       ELSE raw_digits

\* What check_brightness gives for the popup region at each attempt of a retry
\* loop, if the attempt is made.
Popups == [1..MAX_RETRIES -> BOOLEAN]

\* The first attempt whose popup check succeeds (0: none does).
FirstOpened(popup) ==
  LET ok == {i \in DOMAIN popup : popup[i]}
  IN IF ok = {} THEN 0 ELSE CHOOSE i \in ok : \A j \in ok : i <= j

\* The popup checks that a retry loop makes: it stops at the first one that
\* succeeds, and there is none when the channel number is "1".
PopupsChecked(num, popup) ==
  IF num = <<1>> THEN <<>>
  ELSE IF FirstOpened(popup) = 0 THEN popup
  ELSE SubSeq(popup, 1, FirstOpened(popup))

\* What a step that reads the channel indicator leaves in ch_read: the digit
\* run, the channel number taken from it and the results of the popup checks
\* it has made.
ChannelRead(raw, num, popup) ==
  [raw |-> raw, num |-> num, popup |-> PopupsChecked(num, popup), read |-> TRUE]

\* for attempt in range(3), from attempt on: src/boss_bot.py 259-272.
RECURSIVE SwitchAttempts(_, _)
SwitchAttempts(popup, attempt) ==
  IF attempt > MAX_RETRIES THEN [clicks |-> <<>>, modal_opened |-> FALSE]
  ELSE IF popup[attempt]
       THEN [clicks |-> <<"channel_button">>, modal_opened |-> TRUE]
       ELSE LET rest == SwitchAttempts(popup, attempt + 1)
            IN [clicks |-> <<"channel_button">> \o rest.clicks,
                modal_opened |-> rest.modal_opened]

\* A handler that clicks the target channel whether the modal opened or not.
SwitchPlan_ClicksUnopened(raw, popup) ==
  LET num == channel_num(raw)
      m == SwitchAttempts(popup, 1)
  IN IF num = <<1>>
     THEN [num |-> num, skip |-> TRUE, clicks |-> <<>>, label |-> TRUE]
     ELSE [num |-> num, skip |-> FALSE,
           clicks |-> m.clicks \o <<"ch1_button">>, label |-> TRUE]

\* What _handle_switch_ch1 does with the digit run raw and the popup checks
\* popup: the channel number, whether it skips the switch, its clicks and
\* whether it sets current_channel (src/boss_bot.py 235-284).
SwitchPlan(raw, popup) ==
  LET num == channel_num(raw)
      m == SwitchAttempts(popup, 1)
  IN IF num = <<1>>
     THEN [num |-> num, skip |-> TRUE, clicks |-> <<>>, label |-> TRUE]
     ELSE IF ~m.modal_opened
     THEN [num |-> num, skip |-> FALSE, clicks |-> m.clicks, label |-> FALSE]
     ELSE [num |-> num, skip |-> FALSE,
           clicks |-> m.clicks \o <<"ch1_button">>, label |-> TRUE]

\* A handler that sets the label back to unknown when the modal does not open.
SwitchCh1_Forgets(w, Runs) ==
  \E raw \in Runs, popup \in Popups :
    LET plan == SwitchPlan(raw, popup)
    IN Apply(w, [current_channel |-> IF plan.label THEN "CH 1" ELSE "?"],
             [pc |-> "switch_set", ch_read |-> ChannelRead(raw, plan.num, popup),
              clicks |-> plan.clicks], FALSE)

\* _handle_switch_ch1 up to its last log call: src/boss_bot.py 219-285, with
\* the digit run of the OCR drawn from Runs.
SwitchCh1(w, Runs) ==
  \E raw \in Runs, popup \in Popups :
    LET plan == SwitchPlan(raw, popup)
    IN Apply(w, IF plan.label THEN [current_channel |-> "CH 1"] ELSE << >>,
             [pc |-> "switch_set", ch_read |-> ChannelRead(raw, plan.num, popup),
              clicks |-> plan.clicks], FALSE)

HandleSwitchCh1(w) ==
  /\ pc[w] = "switch"
  /\ SwitchCh1(w, RawDigits)

\* The same handler, over every run of DigitRuns.
HandleSwitchCh1Runs(w) ==
  /\ pc[w] = "switch"
  /\ SwitchCh1(w, DigitRuns)

\* self.state = BossState.OPEN_PANEL: src/boss_bot.py 251, 276, 286.
SwitchCh1Set(w) ==
  /\ pc[w] = "switch_set"
  /\ Apply(w, [state |-> "OPEN_PANEL"], EndTick, FALSE)

\* A handler that goes on to the tabs when the panel has not opened.
HandleOpenPanel_Proceeds(w) ==
  /\ pc[w] = "open"
  /\ \E opened_at \in 0..MAX_RETRIES :
       LET tries == Rep(IF opened_at = 0 THEN MAX_RETRIES ELSE opened_at, "mvp_panel_button")
       IN IF opened_at = 0
          THEN Apply(w, << >>,
                     [pc |-> "open_set", clicks |-> tries,
                      nxt |-> IF selected_mvps = {} /\ selected_minis = {}
                              THEN "IDLE" ELSE "CHECK_STATUS"], FALSE)
          ELSE IF selected_mvps # {}
          THEN Apply(w, [checking_mvp_tab |-> TRUE],
                     [pc |-> "open_set", nxt |-> "CHECK_STATUS",
                      clicks |-> tries \o <<"mvp_tab">>], FALSE)
          ELSE IF selected_minis # {}
          THEN Apply(w, [checking_mvp_tab |-> FALSE],
                     [pc |-> "open_set", nxt |-> "CHECK_STATUS",
                      clicks |-> tries \o <<"mini_tab">>], FALSE)
          ELSE Apply(w, << >>, [pc |-> "open_set", nxt |-> "IDLE",
                                clicks |-> tries \o <<"panel_close">>], FALSE)

\* _handle_open_panel up to the tab click: src/boss_bot.py 288-327.  rec says
\* whether the tab clicked is kept in opened_tab.
OpenPanel(w, rec) ==
  \E opened_at \in 0..MAX_RETRIES :
    LET tries == Rep(IF opened_at = 0 THEN MAX_RETRIES ELSE opened_at, "mvp_panel_button")
        tab(t) == [opened_tab |-> IF rec THEN t ELSE None]
    IN IF opened_at = 0
       THEN Apply(w, << >>, [pc |-> "open_set", nxt |-> "IDLE", clicks |-> tries]
                            @@ tab(None), FALSE)
       ELSE IF selected_mvps # {}
       THEN Apply(w, [checking_mvp_tab |-> TRUE],
                  [pc |-> "open_set", nxt |-> "CHECK_STATUS",
                   clicks |-> tries \o <<"mvp_tab">>] @@ tab("mvp_tab"), FALSE)
       ELSE IF selected_minis # {}
       THEN Apply(w, [checking_mvp_tab |-> FALSE],
                  [pc |-> "open_set", nxt |-> "CHECK_STATUS",
                   clicks |-> tries \o <<"mini_tab">>] @@ tab("mini_tab"), FALSE)
       ELSE Apply(w, << >>, [pc |-> "open_set", nxt |-> "IDLE",
                             clicks |-> tries \o <<"panel_close">>] @@ tab(None), FALSE)

HandleOpenPanel(w) ==
  /\ pc[w] = "open"
  /\ OpenPanel(w, FALSE)

\* The same handler, with the tab it clicks kept in opened_tab.
HandleOpenPanelTab(w) ==
  /\ pc[w] = "open"
  /\ OpenPanel(w, TRUE)

\* self.state = IDLE (312, 324) or, after _scroll_to_top, CHECK_STATUS (332).
OpenPanelSet(w) ==
  /\ pc[w] = "open_set"
  /\ Apply(w, [state |-> nxt[w]], EndTick, FALSE)


\* The rows of the panel: PAGES pages of ROWS_PER_PAGE rows, read in order; the
\* row at position p is row (p - 1) % ROWS_PER_PAGE of its page.
Positions == 1..(PAGES * ROWS_PER_PAGE)

TimerText == "0:05:00"

TimerTexts == {TimerText, "0:04:00"}

\* What the OCR of a row shows: the boss it names, whether it holds "appeared"
\* or "battle", and the first h:mm:ss pattern of its text (None: no pattern).
BlankRow == [name |-> None, marker |-> FALSE, timer |-> None]

RowTexts(Timers) == [name : ALL_BOSSES, marker : BOOLEAN, timer : Timers \cup {None}]

\* The panels whose text shows in at most n rows, all of them at positions of
\* Shown.
PanelScansOf(n, Shown, Timers) ==
  UNION {{[p \in Positions |-> IF p \in S THEN g[p] ELSE BlankRow] :
            g \in [S -> RowTexts(Timers)]} :
         S \in {T \in SUBSET Shown : Cardinality(T) <= n}}

\* The panels whose text shows in at most MaxRowsShown rows.
PanelScans(Shown, Timers) == PanelScansOf(MaxRowsShown, Shown, Timers)

\* The result of a scan that has read no row of positions p and after.
ScanEnd(p, tm) ==
  [found_boss |-> None, row_idx |-> 0, timers |-> tm, ocrs |-> p - 1, scrolls |-> <<>>]

\* The result of a scan that finds boss at position p.
ScanFound(boss, p, tm) ==
  [found_boss |-> boss, row_idx |-> (p - 1) % ROWS_PER_PAGE, timers |-> tm,
   ocrs |-> p, scrolls |-> <<>>]

\* if page == 0: self._scroll_panel_down(...), after the row at position p:
\* src/boss_bot.py 388-391.
ScrollAfter(p, rest) ==
  IF p = ROWS_PER_PAGE THEN [rest EXCEPT !.scrolls = <<"scroll_down">> \o @] ELSE rest

\* A scan that blanks the timer of a boss whose row shows no pattern.
RECURSIVE ScanFrom_BlanksTimer(_, _, _, _)
ScanFrom_BlanksTimer(rows, tg, p, tm) ==
  IF p \notin Positions THEN ScanEnd(p, tm)
  ELSE LET row == rows[p]
       IN IF row.name \in tg
          THEN IF row.marker
               THEN ScanFound(row.name, p, tm)
               ELSE ScrollAfter(p, ScanFrom_BlanksTimer(rows, tg, p + 1,
                                         [tm EXCEPT ![row.name] = row.timer]))
          ELSE ScrollAfter(p, ScanFrom_BlanksTimer(rows, tg, p + 1, tm))

\* A scan that takes a row with "appeared" or "battle" for a find whatever
\* boss it names.
RECURSIVE ScanFrom_AnyName(_, _, _, _)
ScanFrom_AnyName(rows, tg, p, tm) ==
  IF p \notin Positions THEN ScanEnd(p, tm)
  ELSE LET row == rows[p]
       IN IF row.name # None /\ row.marker
          THEN ScanFound(row.name, p, tm)
          ELSE ScrollAfter(p, ScanFrom_AnyName(rows, tg, p + 1, tm))

\* The two loops over the pages and the rows, from position p on, with the
\* timers tm recorded so far: src/boss_bot.py 360-391.  tg is targets; ocrs
\* counts the rows that have been read, scrolls holds the scrolls down.
RECURSIVE ScanFrom(_, _, _, _)
ScanFrom(rows, tg, p, tm) ==
  IF p \notin Positions THEN ScanEnd(p, tm)
  ELSE LET row == rows[p]
       IN IF row.name \in tg
          THEN IF row.marker
               THEN ScanFound(row.name, p, tm)
               ELSE ScrollAfter(p, ScanFrom(rows, tg, p + 1,
                                            IF row.timer # None
                                            THEN [tm EXCEPT ![row.name] = row.timer]
                                            ELSE tm))
          ELSE ScrollAfter(p, ScanFrom(rows, tg, p + 1, tm))

\* A handler that takes every boss it finds for a major boss.
CheckStatus_AlwaysMvp(w, Shown, Timers) ==
  \E rows \in PanelScans(Shown, Timers) :
    LET res == ScanFrom(rows, targets[w], 1, boss_timers)
        did == [scan |-> rows, ocr |-> [ocrs |-> res.ocrs, scrolls |-> res.scrolls]]
    IN IF res.found_boss # None
       THEN Apply(w, [boss_timers |-> res.timers, found_row_idx |-> res.row_idx,
                      target_boss |-> res.found_boss, target_is_mvp |-> TRUE],
                  [pc |-> "check_set", nxt |-> "CLICK_GO"] @@ did, FALSE)
       ELSE Apply(w, [boss_timers |-> res.timers], [pc |-> "check_end"] @@ did, FALSE)

\* _handle_check_status, the scan of the rows and what follows a find:
\* src/boss_bot.py 351-396.  What the OCR of the rows shows is an input, drawn
\* from Scans.
CheckStatusOf(w, Scans) ==
  \E rows \in Scans :
    LET res == ScanFrom(rows, targets[w], 1, boss_timers)
        did == [scan |-> rows, ocr |-> [ocrs |-> res.ocrs, scrolls |-> res.scrolls]]
    IN IF res.found_boss # None
       THEN Apply(w, [boss_timers |-> res.timers, found_row_idx |-> res.row_idx,
                      target_boss |-> res.found_boss,
                      target_is_mvp |-> (res.found_boss \in MVP_BOSSES)],
                  [pc |-> "check_set", nxt |-> "CLICK_GO"] @@ did, FALSE)
       ELSE Apply(w, [boss_timers |-> res.timers], [pc |-> "check_end"] @@ did, FALSE)

CheckStatus(w, Shown, Timers) == CheckStatusOf(w, PanelScans(Shown, Timers))

\* Text in the first MaxRowsShown rows of the first page, one timer text.
HandleCheckStatus(w) ==
  /\ pc[w] = "check"
  /\ CheckStatus(w, 1..Min(MaxRowsShown, ROWS_PER_PAGE), {TimerText})

\* Text in the first MaxRowsShown rows of the first page, every timer text.
HandleCheckStatusTimers(w) ==
  /\ pc[w] = "check"
  /\ CheckStatus(w, 1..Min(MaxRowsShown, ROWS_PER_PAGE), TimerTexts)

\* Text in any row of the two pages, no timer text.
HandleCheckStatusPages(w) ==
  /\ pc[w] = "check"
  /\ CheckStatus(w, Positions, {})

\* Text in up to MaxRowsScanned rows of the two pages, no timer text.
HandleCheckStatusRows(w) ==
  /\ pc[w] = "check"
  /\ CheckStatusOf(w, PanelScansOf(MaxRowsScanned, Positions, {}))

\* A fruitless scan of the major tab that gives up without the minor tab.
CheckStatusEnd_NoSwitch(w) ==
  /\ pc[w] = "check_end"
  /\ Apply(w, << >>, [pc |-> "check_set", nxt |-> "IDLE",
                      clicks |-> <<"panel_close">>], FALSE)

\* Nothing found on this tab: src/boss_bot.py 400-414.
CheckStatusEnd(w) ==
  /\ pc[w] = "check_end"
  /\ IF checking_mvp_tab /\ selected_minis # {}
     THEN Apply(w, [checking_mvp_tab |-> FALSE],
                EndTick @@ [clicks |-> <<"mini_tab">>], FALSE)
     ELSE Apply(w, << >>, [pc |-> "check_set", nxt |-> "IDLE",
                           clicks |-> <<"panel_close">>], FALSE)

\* self.state = CLICK_GO (397) or IDLE (415).
CheckStatusSet(w) ==
  /\ pc[w] = "check_set"
  /\ Apply(w, [state |-> nxt[w]], EndTick, FALSE)

\* round(a / h) of Python for integers a and h > 0: the nearest integer, the
\* even one of the two when a / h lies halfway between them.
round_div(a, h) ==
  LET q == a \div h
      r == a % h
  IN IF 2 * r < h THEN q
     ELSE IF 2 * r > h THEN q + 1
     ELSE IF q % 2 = 0 THEN q ELSE q + 1

\* calib_row = round((go_y - first_y) / row_h) if row_h > 0 else 0:
\* src/boss_bot.py 426.
calib_row(pos) ==
  IF pos.row_h > 0 THEN round_div(pos.go_y - pos.first_y, pos.row_h) ELSE 0

\* target_go_y = go_y + (found_row_idx - calib_row) * row_h: src/boss_bot.py
\* 428-429.
target_go_y(pos, idx) == pos.go_y + (idx - calib_row(pos)) * pos.row_h

\* _handle_click_go up to the wait for the loading screen: src/boss_bot.py 417-461.
HandleClickGo(w) ==
  /\ pc[w] = "go"
  /\ \E panel_still_open \in BOOLEAN, loading_detected \in BOOLEAN :
       LET cl == <<"go_button">> \o (IF panel_still_open THEN <<"panel_close">> ELSE <<>>)
           go == [go_click |-> [clicked |-> TRUE,
                                y |-> target_go_y(boss_layout, found_row_idx)]]
       IN IF win_set /\ loading_detected
          THEN Apply(w, << >>, [pc |-> "go_loadwait", k |-> MaxLoadPolls,
                               clicks |-> cl] @@ go, FALSE)
          ELSE Apply(w, << >>, [pc |-> "go_r1", clicks |-> cl] @@ go, FALSE)

\* if loading_detected: self._wait_for_loading_screen(): 457-458.
GoLoadingWait(w) ==
  /\ pc[w] = "go_loadwait"
  /\ WaitForLoading(w, "go_r1", "go_r1")

\* if not self.running: return, three times: src/boss_bot.py 463, 469, 475.
GoCheckRunning(w, then) ==
  IF ~running
  THEN Apply(w, << >>, EndTick, FALSE)
  ELSE Apply(w, << >>, [pc |-> then], FALSE)

GoCheckRunning1(w) ==
  /\ pc[w] = "go_r1"
  /\ GoCheckRunning(w, "go_ensure")

\* The channel number of _ensure_ch1: src/boss_bot.py 678-686.
ensure_channel_num(raw_digits) ==
  IF raw_digits = <<>> THEN <<>>
  ELSE IF Len(raw_digits) > 1 /\ raw_digits[Len(raw_digits)] = 1
       THEN SubSeq(raw_digits, 1, Len(raw_digits) - 1)
       ELSE raw_digits

\* for attempt in range(3), from attempt on: src/boss_bot.py 698-708.
RECURSIVE EnsureAttempts(_, _)
EnsureAttempts(popup, attempt) ==
  IF attempt > MAX_RETRIES THEN [clicks |-> <<>>, modal_opened |-> FALSE]
  ELSE IF popup[attempt]
       THEN [clicks |-> <<"channel_button">>, modal_opened |-> TRUE]
       ELSE LET rest == EnsureAttempts(popup, attempt + 1)
            IN [clicks |-> <<"channel_button">> \o rest.clicks,
                modal_opened |-> rest.modal_opened]

\* An _ensure_ch1 that tries the channel button once.
EnsurePlan_OneAttempt(raw, popup) ==
  LET num == ensure_channel_num(raw)
  IN IF num = <<1>>
     THEN [num |-> num, skip |-> TRUE, clicks |-> <<>>, label |-> TRUE]
     ELSE IF ~popup[1]
     THEN [num |-> num, skip |-> FALSE, clicks |-> <<"channel_button">>, label |-> FALSE]
     ELSE [num |-> num, skip |-> FALSE,
           clicks |-> <<"channel_button", "ch1_button">>, label |-> TRUE]

\* What _ensure_ch1 does with the digit run raw and the popup checks popup:
\* src/boss_bot.py 678-723.
EnsurePlan(raw, popup) ==
  LET num == ensure_channel_num(raw)
      m == EnsureAttempts(popup, 1)
  IN IF num = <<1>>
     THEN [num |-> num, skip |-> TRUE, clicks |-> <<>>, label |-> TRUE]
     ELSE IF m.modal_opened
     THEN [num |-> num, skip |-> FALSE,
           clicks |-> m.clicks \o <<"ch1_button">>, label |-> TRUE]
     ELSE [num |-> num, skip |-> FALSE, clicks |-> m.clicks, label |-> FALSE]

\* An _ensure_ch1 that opens the channel modal whatever it has read.
EnsureCh1_AlwaysSwitches(w) ==
  /\ pc[w] = "go_ensure"
  /\ \E raw \in RawDigits, popup \in Popups :
       LET m == EnsureAttempts(popup, 1)
       IN Apply(w, IF m.modal_opened THEN [current_channel |-> "CH 1"] ELSE << >>,
                [pc |-> "go_r2",
                 ch_read |-> ChannelRead(raw, ensure_channel_num(raw), popup),
                 clicks |-> m.clicks \o (IF m.modal_opened THEN <<"ch1_button">>
                                         ELSE <<>>)], FALSE)

\* _ensure_ch1: src/boss_bot.py 665-723.
EnsureCh1(w) ==
  /\ pc[w] = "go_ensure"
  /\ \E raw \in RawDigits, popup \in Popups :
       LET plan == EnsurePlan(raw, popup)
       IN Apply(w, IF plan.label THEN [current_channel |-> "CH 1"] ELSE << >>,
                [pc |-> "go_r2", ch_read |-> ChannelRead(raw, plan.num, popup),
                 clicks |-> plan.clicks], FALSE)

GoCheckRunning2(w) ==
  /\ pc[w] = "go_r2"
  /\ GoCheckRunning(w, "go_minimap")

\* _wait_for_arrival, opening the minimap: src/boss_bot.py 489-525.  The loop
\* that follows takes at most polls snapshots before MAX_WAIT has passed.
OpenMinimapFor(w, polls) ==
  \E is_open \in BOOLEAN :
    Apply(w, << >>, [pc |-> "go_arrive", k |-> polls,
                     arrival |-> [NoArrival EXCEPT !.status = "start"],
                     checks |-> <<is_open>>,
                     clicks |-> IF is_open THEN <<>> ELSE <<"minimap">>], FALSE)

OpenMinimap(w) ==
  /\ pc[w] = "go_minimap"
  /\ OpenMinimapFor(w, MaxArrivePolls)

\* The same, with the ArrivalPolls snapshots that a walk to the boss takes.
OpenMinimapWalk(w) ==
  /\ pc[w] = "go_minimap"
  /\ OpenMinimapFor(w, ArrivalPolls)

\* What the capture and the comparison of a snapshot add to the POLL_INTERVAL
\* between two reads of the clock, in units of 0.5 s.
Latency == {0, 1}

\* A closing of the minimap that does not verify it.
CloseMinimap_Unverified(still_open) == <<"minimap">>

\* The click that closes the minimap and its verification: 555-567.
CloseMinimap(still_open) ==
  <<"minimap">> \o (IF still_open THEN <<"minimap">> ELSE <<>>)

\* A loop in which a changed image does not restart the stable time.
WaitForArrival_NoRestart(w) ==
  /\ pc[w] = "go_arrive"
  /\ \E moving \in BOOLEAN, lat \in Latency, still_open \in BOOLEAN :
       LET a == arrival[w]
           el == a.stable + POLL_INTERVAL + lat
           seen == [stable |-> el, below |-> a.below + 1,
                    late |-> a.late \/ lat > 0, status |-> "polling"]
           Leave(st, b) ==
             Apply(w, << >>, [pc |-> "go_r3", k |-> 0,
                              arrival |-> [b EXCEPT !.status = st],
                              checks |-> <<still_open>>,
                              clicks |-> CloseMinimap(still_open)], FALSE)
           Sleep(b) == Apply(w, << >>, [k |-> k[w] - 1, arrival |-> b], FALSE)
       IN IF ~running THEN Leave("stopped", a)
          ELSE IF k[w] = 0 THEN Leave("timeout", a)
          ELSE IF a.status = "start" THEN Sleep([a EXCEPT !.status = "polling"])
          ELSE IF moving THEN Sleep([seen EXCEPT !.below = 0])
          ELSE IF el >= STABLE_DURATION THEN Leave("arrived", seen)
          ELSE Sleep(seen)

\* _wait_for_arrival, one pass of the polling loop, and the closing of the
\* minimap when the loop ends: src/boss_bot.py 527-567.  arrival[w].stable is
\* the time from stable_since to the latest comparison, in units of 0.5 s;
\* below counts the comparisons at or under DIFF_THRESHOLD since stable_since
\* was last set, and late says that one of them came after more than
\* POLL_INTERVAL.
WaitForArrival(w) ==
  /\ pc[w] = "go_arrive"
  /\ \E moving \in BOOLEAN, lat \in Latency, still_open \in BOOLEAN :
       LET a == arrival[w]
           el == a.stable + POLL_INTERVAL + lat
           seen == [stable |-> el, below |-> a.below + 1,
                    late |-> a.late \/ lat > 0, status |-> "polling"]
           Leave(st, b) ==
             Apply(w, << >>, [pc |-> "go_r3", k |-> 0,
                              arrival |-> [b EXCEPT !.status = st],
                              checks |-> <<still_open>>,
                              clicks |-> CloseMinimap(still_open)], FALSE)
           Sleep(b) == Apply(w, << >>, [k |-> k[w] - 1, arrival |-> b], FALSE)
       IN IF ~running THEN Leave("stopped", a)
          ELSE IF k[w] = 0 THEN Leave("timeout", a)
          ELSE IF a.status = "start" THEN Sleep([a EXCEPT !.status = "polling"])
          ELSE IF moving THEN Sleep([NoArrival EXCEPT !.status = "polling"])
          ELSE IF el >= STABLE_DURATION THEN Leave("arrived", seen)
          ELSE Sleep(seen)

\* A handler that sets START_ATTACK without the third test of running.
ClickGoSet_NoTest(w) ==
  /\ pc[w] = "go_r3"
  /\ Apply(w, [state |-> "START_ATTACK"], EndTick, FALSE)

\* The third test of running, then _fighting_start and the state:
\* src/boss_bot.py 475-479.
ClickGoSet(w) ==
  /\ pc[w] = "go_r3"
  /\ IF ~running
     THEN Apply(w, << >>, EndTick, FALSE)
     ELSE Apply(w, [state |-> "START_ATTACK"], EndTick, FALSE)

\* _handle_start_attack up to the click on the toggle, with
\* _close_minimap_if_open: src/boss_bot.py 586-596, 868-910.
HandleStartAttack(w) ==
  /\ pc[w] = "attack"
  /\ \E is_bright \in BOOLEAN, still_bright \in BOOLEAN :
       LET mm == IF ~is_bright THEN <<>>
                 ELSE IF still_bright THEN <<"minimap", "minimap">> ELSE <<"minimap">>
       IN Apply(w, << >>, [pc |-> "attack_select",
                           checks |-> IF is_bright THEN <<TRUE, still_bright>>
                                              ELSE <<FALSE>>,
                           clicks |-> mm \o <<"auto_attack_toggle">>], FALSE)

\* What the OCR of one dropdown row can show.
EntryTexts == {"", "all monsters", "poring"} \cup ALL_BOSSES

SKIP_ENTRIES == {"all monsters"}

\* boss_lower in row_lower, or every word of the name in the row; an empty
\* boss_lower is in every row: src/boss_bot.py 938-969.
EntryMatches(boss, text) == IF boss = None THEN TRUE ELSE text = boss

EntryLabel(text) ==
  CASE text = "poring" -> "entry:poring"
    [] text = "Eddga" -> "entry:Eddga"
    [] text = "Toad" -> "entry:Toad"
    [] OTHER -> "entry:other"

\* _select_boss_from_monster_list: src/boss_bot.py 912-978.  Rows past
\* MaxEntriesShown show no text.
SelectBossFromMonsterList(w) ==
  /\ pc[w] = "attack_select"
  /\ \E list \in [1..MaxEntriesShown -> EntryTexts] :
       LET ok(i) == list[i] # "" /\ list[i] \notin SKIP_ENTRIES
                    /\ EntryMatches(target_boss, list[i])
           rows == {i \in 1..MaxEntriesShown : ok(i)}
           found_row == CHOOSE i \in rows : \A j \in rows : i <= j
       IN Apply(w, << >>,
                [pc |-> "attack_set",
                 clicks |-> IF rows = {} THEN <<>> ELSE <<EntryLabel(list[found_row])>>],
                FALSE)

\* self._fighting_start = time.time(); self.state = FIGHTING: 602-603.
StartAttackSet(w) ==
  /\ pc[w] = "attack_set"
  /\ Apply(w, [state |-> "FIGHTING"], EndTick, FALSE)

\* A handler that counts a timeout as a death.
HandleFighting_CountsTimeout(w) ==
  /\ pc[w] = "fight"
  /\ \E death \in BOOLEAN, elapsed \in 0..(FightingTimeout + 1) :
       IF death
       THEN /\ deaths < MaxDeaths
            /\ Apply(w, [deaths |-> deaths + 1], [pc |-> "fight_dead", k |-> elapsed], FALSE)
       ELSE IF elapsed > FightingTimeout
       THEN /\ deaths < MaxDeaths
            /\ Apply(w, [deaths |-> deaths + 1], [pc |-> "fight_timeout", k |-> elapsed], FALSE)
       ELSE Apply(w, << >>, [k |-> elapsed] @@ EndTick, FALSE)

\* _handle_fighting up to its log calls: src/boss_bot.py 605-628.  elapsed is
\* time.time() - self._fighting_start; the thread keeps it in k to the end of
\* the tick.
HandleFighting(w) ==
  /\ pc[w] = "fight"
  /\ \E death \in BOOLEAN, elapsed \in 0..(FightingTimeout + 1) :
       IF death
       THEN /\ deaths < MaxDeaths
            /\ Apply(w, [deaths |-> deaths + 1], [pc |-> "fight_dead", k |-> elapsed], FALSE)
       ELSE IF elapsed > FightingTimeout
       THEN Apply(w, << >>, [pc |-> "fight_timeout", k |-> elapsed], FALSE)
       ELSE Apply(w, << >>, [k |-> elapsed] @@ EndTick, FALSE)

\* self.state = BossState.DEAD: src/boss_bot.py 617.
FightingDead(w) ==
  /\ pc[w] = "fight_dead"
  /\ Apply(w, [state |-> "DEAD"], EndTick, FALSE)

\* A timeout that goes back to IDLE with the target still set.
FightingTimedOut_KeepsTarget(w) ==
  /\ pc[w] = "fight_timeout"
  /\ Apply(w, [state |-> "IDLE"], [k |-> k[w]] @@ EndTick, FALSE)

\* A timeout that counts the boss it presumes dead.
FightingTimedOut_CountsKill(w) ==
  /\ pc[w] = "fight_timeout"
  /\ Apply(w, [target_boss |-> None, state |-> "IDLE", bosses_killed |-> 1],
           [k |-> k[w]] @@ EndTick, FALSE)

\* self.target_boss = None; self.state = IDLE: src/boss_bot.py 624-625.
FightingTimedOut(w) ==
  /\ pc[w] = "fight_timeout"
  /\ Apply(w, [target_boss |-> None, state |-> "IDLE"], [k |-> k[w]] @@ EndTick, FALSE)

\* _handle_dead: src/boss_bot.py 630-634.
HandleDead(w) ==
  /\ pc[w] = "dead"
  /\ Apply(w, [state |-> "RESURRECT"], EndTick, FALSE)

\* A handler that clicks until the death popup has gone, at most
\* MAX_RETRIES times.
HandleResurrect_Retries(w) ==
  /\ pc[w] = "resurrect"
  /\ \E still_dead \in BOOLEAN, n \in 2..MAX_RETRIES :
       Apply(w, << >>,
             [pc |-> "resurrect_set", checks |-> <<still_dead>>,
              clicks |-> IF still_dead THEN Rep(n, "resurrect_button")
                         ELSE <<"resurrect_button">>], FALSE)

\* _handle_resurrect up to its last log call: src/boss_bot.py 636-651.
HandleResurrect(w) ==
  /\ pc[w] = "resurrect"
  /\ \E still_dead \in BOOLEAN :
       Apply(w, << >>,
             [pc |-> "resurrect_set", checks |-> <<still_dead>>,
              clicks |-> IF still_dead THEN <<"resurrect_button", "resurrect_button">>
                         ELSE <<"resurrect_button">>], FALSE)

\* self.state = BossState.RE_NAVIGATE: src/boss_bot.py 652.
ResurrectSet(w) ==
  /\ pc[w] = "resurrect_set"
  /\ Apply(w, [state |-> "RE_NAVIGATE"], EndTick, FALSE)

\* A re-navigation that always gives the hunt up.
HandleReNavigate_ToIdle(w) ==
  /\ pc[w] = "renav"
  /\ Apply(w, [state |-> "IDLE"], EndTick, FALSE)

\* _handle_re_navigate: src/boss_bot.py 654-661.  rec says whether the target
\* it goes back for is kept in renav_target.
ReNavigate(w, rec) ==
  IF target_boss = None
  THEN Apply(w, [state |-> "IDLE"], EndTick, FALSE)
  ELSE Apply(w, [state |-> "OPEN_PANEL"],
             IF rec THEN EndTick @@ [renav_target |-> target_boss] ELSE EndTick, FALSE)

HandleReNavigate(w) ==
  /\ pc[w] = "renav"
  /\ ReNavigate(w, FALSE)

\* The same handler, with the target kept in renav_target.
HandleReNavigateFor(w) ==
  /\ pc[w] = "renav"
  /\ ReNavigate(w, TRUE)

\* ------------------------------------------------------------------- Next
HuntStep(w) ==
  \/ LoopTest(w) \/ RefreshWindow(w) \/ Dispatch(w) \/ LoadingWait(w)
  \/ LoadingInterrupt(w) \/ Raise(w)
  \/ HandleIdle(w)
  \/ HandleSwitchCh1(w) \/ SwitchCh1Set(w)
  \/ HandleOpenPanel(w) \/ OpenPanelSet(w)
  \/ HandleCheckStatus(w) \/ CheckStatusEnd(w) \/ CheckStatusSet(w)
  \/ HandleClickGo(w) \/ GoLoadingWait(w) \/ GoCheckRunning1(w) \/ EnsureCh1(w)
  \/ GoCheckRunning2(w) \/ OpenMinimap(w) \/ WaitForArrival(w) \/ ClickGoSet(w)
  \/ HandleStartAttack(w) \/ SelectBossFromMonsterList(w) \/ StartAttackSet(w)
  \/ HandleFighting(w) \/ FightingDead(w) \/ FightingTimedOut(w)
  \/ HandleDead(w)
  \/ HandleResurrect(w) \/ ResurrectSet(w)

WorkerStep(w) ==
  \/ HuntStep(w)
  \/ HandleReNavigate(w)

Next ==
  \/ Start
  \/ Stop
  \/ UpdateSelection
  \/ \E w \in 1..MaxWorkers : WorkerStep(w)

Spec == Init /\ [][Next]_vars

\* The threads are scheduled and their blocking calls return: a thread that
\* can take a step takes one.
FairSpec == Spec /\ \A w \in 1..MaxWorkers : WF_vars(WorkerStep(w))

\* The restart of the engine: start(), stop() and threads in the main loop and
\* in _handle_idle; a thread that has entered another handler stays in its
\* first blocking call until that call raises.
LoopStep(w) ==
  \/ LoopTest(w) \/ RefreshWindow(w) \/ Dispatch(w) \/ LoadingWait(w)
  \/ LoadingInterrupt(w) \/ Raise(w)
  \/ HandleIdle(w)

NextThreads ==
  \/ Start
  \/ Stop
  \/ \E w \in 1..MaxThreads : LoopStep(w)

InitThreads == InitWith(MaxThreads)

ThreadSpec == InitThreads /\ [][NextThreads]_vars

\* The window that moves: start(), stop() and a thread in the main loop and
\* in _handle_idle, with a window found at any origin of WindowOrigins.
NextWindow ==
  \/ Start
  \/ Stop
  \/ \E w \in 1..MaxWorkers : LoopStep(w)

WindowSpec == InitOf(MaxWorkers, {Calibrated}, WindowOrigins) /\ [][NextWindow]_vars

\* The reading of the channel indicator: the main loop, _handle_idle and
\* _handle_switch_ch1 over every run of DigitRuns; a thread that has entered
\* another handler stays in its first blocking call until that call raises.
ChannelStep(w) ==
  \/ LoopStep(w)
  \/ HandleSwitchCh1Runs(w) \/ SwitchCh1Set(w)

NextChannel ==
  \/ Start
  \/ Stop
  \/ \E w \in 1..MaxWorkers : ChannelStep(w)

ChannelSpec == Init /\ [][NextChannel]_vars

\* The timers of the panel: the main loop and the handlers of IDLE,
\* SWITCH_CH1, OPEN_PANEL and CHECK_STATUS, with every timer text; a thread
\* that has entered _handle_click_go stays in its first blocking call until
\* that call raises.
PanelStep(w) ==
  \/ LoopStep(w)
  \/ HandleSwitchCh1(w) \/ SwitchCh1Set(w)
  \/ HandleOpenPanel(w) \/ OpenPanelSet(w)
  \/ CheckStatusEnd(w) \/ CheckStatusSet(w)

NextTimers ==
  \/ Start
  \/ Stop
  \/ UpdateSelection
  \/ \E w \in 1..MaxWorkers : PanelStep(w) \/ HandleCheckStatusTimers(w)

TimerSpec == Init /\ [][NextTimers]_vars

\* The rows of the panel: the same, with text in any row of the two pages.
NextPages ==
  \/ Start
  \/ Stop
  \/ \E w \in 1..MaxWorkers : PanelStep(w) \/ HandleCheckStatusPages(w)

PagesSpec == Init /\ [][NextPages]_vars

\* The click on the Go button: a hunt that no stop() cuts, with any layout
\* file of Calibrations and text in any row of the two pages; a thread that
\* has clicked the Go button stays in its next blocking call until that call
\* raises.
NextGo ==
  \/ Start
  \/ \E w \in 1..MaxWorkers :
        PanelStep(w) \/ HandleCheckStatusPages(w) \/ HandleClickGo(w)

GoSpec == InitOf(MaxWorkers, Calibrations, {NoWindow}) /\ [][NextGo]_vars

\* The scan of the rows: the same, with text in up to MaxRowsScanned rows.
NextRows ==
  \/ Start
  \/ Stop
  \/ \E w \in 1..MaxWorkers : PanelStep(w) \/ HandleCheckStatusRows(w)

RowsSpec == Init /\ [][NextRows]_vars

\* The scan of the categories with a selection that is edited while it runs:
\* the main loop and the handlers of IDLE, SWITCH_CH1, OPEN_PANEL and
\* CHECK_STATUS; opened_tab keeps the tab _handle_open_panel has clicked.  A
\* thread that has entered _handle_click_go stays in its first blocking call
\* until that call raises.
NextCycle ==
  \/ Start
  \/ Stop
  \/ UpdateSelection
  \/ \E w \in 1..MaxWorkers :
        \/ LoopStep(w)
        \/ HandleSwitchCh1(w) \/ SwitchCh1Set(w)
        \/ HandleOpenPanelTab(w) \/ OpenPanelSet(w)
        \/ HandleCheckStatus(w) \/ CheckStatusEnd(w) \/ CheckStatusSet(w)

CycleSpec == Init /\ [][NextCycle]_vars

\* The walk to the boss: the main loop and the handlers up to _handle_click_go,
\* with ArrivalPolls snapshots in _wait_for_arrival; a thread that has entered
\* _handle_start_attack stays in its first blocking call until that call
\* raises.
NextArrival ==
  \/ Start
  \/ Stop
  \/ \E w \in 1..MaxWorkers :
        \/ PanelStep(w) \/ HandleCheckStatus(w)
        \/ HandleClickGo(w) \/ GoLoadingWait(w) \/ GoCheckRunning1(w) \/ EnsureCh1(w)
        \/ GoCheckRunning2(w) \/ OpenMinimapWalk(w) \/ WaitForArrival(w)
        \/ ClickGoSet(w)

ArrivalSpec == Init /\ [][NextArrival]_vars

\* The hunt with a selection that is not edited while it runs, with threads
\* that keep being scheduled and a clock that advances: a thread that can
\* take a step takes one, and a fight whose ticks keep reading the clock
\* comes to read an elapsed time over FIGHTING_TIMEOUT.  renav_target keeps
\* the target _handle_re_navigate has gone back for.
HuntWorkerStep(w) ==
  \/ HuntStep(w)
  \/ HandleReNavigateFor(w)

NextHunt ==
  \/ Start
  \/ Stop
  \/ \E w \in 1..MaxWorkers : HuntWorkerStep(w)

HuntSpec ==
  /\ Init /\ [][NextHunt]_vars
  /\ \A w \in 1..MaxWorkers :
       /\ WF_vars(HuntWorkerStep(w))
       /\ SF_vars(HandleFighting(w) /\ pc'[w] = "fight_timeout")

TypeOK ==
  /\ state \in BossState /\ running \in BOOLEAN
  /\ target_boss \in ALL_BOSSES \cup {None}
  /\ deaths \in 0..MaxDeaths /\ bosses_killed \in Nat
  /\ current_channel \in {"?", "CH 1"}

\* ----------------------------------------------------------- properties
\* A step of thread w: it moves w or changes one of its locals.
StepOf(w) == pc'[w] # pc[w] \/ k'[w] # k[w]

\* C1: whenever the state is IDLE the target boss is null.
C1_IdleTargetNull == state = "IDLE" => target_boss = None

\* C2: once CHECK_STATUS has found a boss in the current hunt (the state has
\* been set to CLICK_GO since it was last set to IDLE) the target boss is
\* non-null as long as the state is not IDLE.
C2_TargetKeptUntilIdle == (state # "IDLE" /\ found_in_hunt) => target_boss # None

\* C3 as stated: after a death is detected in FIGHTING, with no loading
\* interrupt and no stop(), the states at the ends of the consecutive ticks
\* are FIGHTING, DEAD, RESURRECT, RE_NAVIGATE, OPEN_PANEL in that order.
C3_EveryTick == IsPrefix(trail, DeathSequence)

\* C3, amended: the same when, in addition, no tick since the death has ended
\* in the except clause of the main loop.
C3_DeathSequence == ~trail_exc => IsPrefix(trail, DeathSequence)

C3_Witness == trail = DeathSequence /\ ~trail_exc /\ target_boss # None

\* C4: the death counter changes only in the FIGHTING handler, by +1, in the
\* tick that detects the death signal; the next step of that handler sets the
\* state to DEAD, and nothing else sets the state to DEAD.
C4_DeathCounter ==
  [][/\ deaths' # deaths =>
          /\ deaths' = deaths + 1
          /\ \E w \in Workers : pc[w] = "fight" /\ pc'[w] = "fight_dead"
     /\ \A w \in Workers :
          /\ (pc[w] = "fight" /\ pc'[w] = "fight_dead") => deaths' = deaths + 1
          /\ (pc[w] = "fight_dead" /\ StepOf(w)) => state' = "DEAD" /\ deaths' = deaths
     /\ (state' = "DEAD" /\ state # "DEAD") =>
          \E w \in Workers : pc[w] = "fight_dead" /\ StepOf(w)]_vars

C4_Witness == deaths = 1 /\ state = "DEAD" /\ \E w \in Workers : pc[w] = "loop" /\ wrote[w]

\* C5: in FIGHTING with no death signal, a tick whose elapsed time exceeds the
\* timeout sets the state to IDLE and the target boss to null and leaves the
\* death counter; a tick whose elapsed time does not exceed it leaves the
\* state (FIGHTING, when no stop() has been made), the target and the counter.
C5_FightingTimeout ==
  [][\A w \in Workers :
       /\ (pc[w] = "fight" /\ pc'[w] = "fight_timeout") =>
            k'[w] > FightingTimeout /\ deaths' = deaths
       /\ (pc[w] = "fight_timeout" /\ StepOf(w)) =>
            state' = "IDLE" /\ target_boss' = None /\ deaths' = deaths /\ pc'[w] = "loop"
       /\ (pc[w] = "fight" /\ pc'[w] = "loop" /\ ~err'[w]) =>
            /\ k'[w] <= FightingTimeout
            /\ state' = state /\ target_boss' = target_boss /\ deaths' = deaths
            /\ (~everStopped => state' = "FIGHTING")]_vars

C5_Witness ==
  \E w \in Workers :
    /\ pc[w] = "loop" /\ wrote[w] /\ k[w] > FightingTimeout
    /\ state = "IDLE" /\ target_boss = None /\ running

\* C6: when a loading screen is detected at the top of a tick, the thread goes
\* from the wait straight to the end of the tick, entering no handler, and
\* when the wait ends (the screen is bright again, or the timeout has passed)
\* it sets the state to SWITCH_CH1.
C6_LoadingInterrupt ==
  [][\A w \in Workers :
       /\ (pc[w] = "loadwait" /\ StepOf(w)) =>
            \/ pc'[w] \in {"loadwait", "load_done", "load_timeout"}
            \/ pc'[w] = "loop" /\ err'[w]
       /\ (pc[w] \in {"load_done", "load_timeout"} /\ StepOf(w)) =>
            state' = "SWITCH_CH1" /\ pc'[w] = "loop" /\ ~err'[w]]_vars

C6_Witness ==
  \E w \in Workers :
    pc[w] = "load_timeout" /\ running /\ state \in {"FIGHTING", "DEAD", "RESURRECT", "CLICK_GO"}

\* C7: at most one thread is inside a tick of the main loop.
C7_OneWorker == Cardinality({w \in Workers : pc[w] \notin {"none", "exited", "loop"}}) <= 1

\* C8: the state, the target boss, the counters, the channel label and the
\* timers change only in steps of a worker thread.
C8_WorkerWritesOnly ==
  [][<<state, target_boss, deaths, bosses_killed, current_channel, boss_timers>>'
       # <<state, target_boss, deaths, bosses_killed, current_channel, boss_timers>>
     => \E w \in Workers : Alive(w) /\ StepOf(w)]_vars

\* C9: when running is false the threads exit unless a start() sets it again,
\* and every click is issued by a thread that has not exited.
C9_WorkerExits ==
  /\ (~running ~> (running \/ \A w \in Workers : ~Alive(w)))
  /\ [][clicks' # <<>> => clicker' \in Workers /\ Alive(clicker') /\ StepOf(clicker')]_vars

C9_Witness == everStopped /\ ~running /\ \E w \in Workers : pc[w] = "exited"

\* C10: a step that ends in the except clause of the main loop leaves the state
\* and running as they were, in a tick that has not set the state, and takes
\* the thread back to the while test, which starts the next tick when running
\* is true.
C10_ExceptionKeepsState ==
  [][\A w \in Workers :
       /\ (pc[w] # "loop" /\ StepOf(w) /\ err'[w]) =>
            /\ state' = state /\ running' = running
            /\ ~wrote[w] /\ ~wrote'[w] /\ pc'[w] = "loop"
       /\ (pc[w] = "loop" /\ StepOf(w) /\ running) => pc'[w] = "tick"]_vars

C10_Witness ==
  \E w \in Workers : pc[w] = "loop" /\ err[w] /\ running /\ state = "FIGHTING"

\* C11: a thread goes on to the loading check and the handler of a tick only
\* when the find_game_window() of that tick found the window.
C11_TickSkipped == \A w \in Workers : pc[w] = "tick_load" => new_win[w]

\* C12: a start() that loads an empty selection, or no boss calibration, or
\* finds no game window leaves running false, creates no thread and leaves the
\* state, the target boss and the counters.
C12_StartRefuses ==
  [][(Start /\ (\/ selected_mvps' = {} /\ selected_minis' = {}
                \/ layout' \in {"none", "noboss"}
                \/ ~win_set'))
     => /\ ~running' /\ pc' = pc
        /\ state' = state /\ target_boss' = target_boss
        /\ deaths' = deaths /\ bosses_killed' = bosses_killed]_vars

C12_Witness ==
  /\ ~running /\ ~everStopped /\ \A w \in Workers : pc[w] = "none"
  /\ selected_mvps # {} /\ layout = "ok" /\ ~win_set

\* C13: when the run read after "ch" is the digits of channel n (1..MaxChannel)
\* followed by a "1", the normalized number is the digits of n; a run of one
\* digit is kept; and the handler skips the channel switch (no click) exactly
\* when the normalized number is "1".
C13_ChannelNormalization ==
  ch_read.read =>
    /\ \A n \in 1..MaxChannel :
         ch_read.raw = DigitsOf(n) \o <<1>> => ch_read.num = DigitsOf(n)
    /\ Len(ch_read.raw) = 1 => ch_read.num = ch_read.raw
    /\ (clicks = <<>>) <=> (ch_read.num = <<1>>)

C13_Witness ==
  /\ ch_read.read /\ ch_read.raw = <<2, 0, 1>> /\ ch_read.num = <<2, 0>>
  /\ clicks # <<>> /\ \E w \in Workers : pc[w] = "switch_set"

\* C14 as stated: an _ensure_ch1 that reads the target channel issues no click
\* and leaves the state, the target boss, the counters, the timers and the
\* channel label.
C14_EnsureLeavesLabel ==
  [][\A w \in Workers :
       (pc[w] = "go_ensure" /\ pc'[w] = "go_r2" /\ ch_read'.num = <<1>>) =>
         /\ clicks' = <<>>
         /\ UNCHANGED <<state, target_boss, deaths, bosses_killed, boss_timers,
                        current_channel>>]_vars

\* C14, amended: such an _ensure_ch1 issues no click, leaves the state, the
\* target boss, the counters and the timers, and sets the channel label to
\* "CH 1"; run from its own result (label "CH 1") it changes nothing.
C14_EnsureOnTarget ==
  [][\A w \in Workers :
       (pc[w] = "go_ensure" /\ pc'[w] = "go_r2" /\ ch_read'.num = <<1>>) =>
         /\ clicks' = <<>>
         /\ UNCHANGED <<state, target_boss, deaths, bosses_killed, boss_timers>>
         /\ current_channel' = "CH 1"
         /\ current_channel = "CH 1" =>
              UNCHANGED <<current_channel, running, target_is_mvp, selected_mvps,
                          selected_minis, checking_mvp_tab, found_row_idx>>]_vars

C14_Witness ==
  /\ \E w \in Workers : pc[w] = "go_r2"
  /\ ch_read.read /\ ch_read.num = <<1>> /\ clicks = <<>>
  /\ current_channel = "CH 1" /\ state = "CLICK_GO" /\ target_boss # None

\* C15: a recorded timer is never removed or blanked, whatever the step (a
\* scan, a loading interrupt, stop(), start(), update_selection()); the entry
\* of boss b changes only in the scan of a thread whose targets hold b, which
\* has read a row that names b, has no "appeared" / "battle" and shows an
\* h:mm:ss pattern, and the entry is then such a pattern.
C15_TimerMonotone ==
  [][\A b \in ALL_BOSSES :
       /\ boss_timers[b] # None => boss_timers'[b] # None
       /\ boss_timers'[b] # boss_timers[b] =>
            \E w \in Workers :
              /\ pc[w] = "check" /\ pc'[w] \in {"check_set", "check_end"}
              /\ b \in targets[w]
              /\ \E p \in Positions :
                   /\ scan'[w][p].name = b /\ ~scan'[w][p].marker
                   /\ scan'[w][p].timer \in TimerTexts
                   /\ boss_timers'[b] = scan'[w][p].timer]_vars

C15_Witness ==
  \E w \in Workers :
    /\ pc[w] = "check_end" /\ everStopped
    /\ \E p \in Positions : scan[w][p] = [name |-> "Eddga", marker |-> FALSE, timer |-> None]
    /\ "Eddga" \in targets[w] /\ boss_timers["Eddga"] = "0:04:00"

\* The first row of a scan that names a boss of tg and holds "appeared" or
\* "battle" (0: no such row).
FirstAppeared(rows, tg) ==
  LET hits == {p \in Positions : rows[p].name \in tg /\ rows[p].marker}
  IN IF rows = NoScan \/ hits = {} THEN 0
     ELSE CHOOSE p \in hits : \A q \in hits : p <= q

\* C17: when the first row that names a selected boss B with "appeared" or
\* "battle" is row r of its page, the CHECK_STATUS tick ends with the state
\* CLICK_GO, the target boss B and the found row index r.
C17_FoundRow ==
  [][\A w \in Workers :
       LET p == FirstAppeared(scan[w], targets[w])
       IN (pc[w] = "check_set" /\ pc'[w] = "loop" /\ p # 0) =>
            /\ state' = "CLICK_GO"
            /\ target_boss' = scan[w][p].name
            /\ found_row_idx' = (p - 1) % ROWS_PER_PAGE]_vars

C18_SelectOnlyTarget ==
  [][\A w \in Workers :
       (pc[w] = "attack_select" /\ pc'[w] = "attack_set") =>
         /\ Len(clicks') <= 1
         /\ clicks' # <<>> =>
              /\ target_boss \in ALL_BOSSES
              /\ clicks' = <<EntryLabel(target_boss)>>]_vars

\* The clicks of an OPEN_PANEL handler whose panel did not open.
PanelNotOpened == Rep(MAX_RETRIES, "mvp_panel_button")

C20_CategoryDerived ==
  /\ [](target_boss # None => target_is_mvp = (target_boss \in MVP_BOSSES))
  /\ [](MVP_BOSSES \cap MINI_BOSSES = {})
  /\ [][target_is_mvp' # target_is_mvp =>
          \E w \in Workers : /\ pc[w] = "check" /\ pc'[w] = "check_set"
                              /\ target_boss' \in ALL_BOSSES]_vars

C20_Witness ==
  /\ target_boss = "Toad" /\ ~target_is_mvp /\ state = "CLICK_GO"
  /\ \E w \in Workers : pc[w] = "loop" /\ wrote[w]

\* C21: update_selection(m, n) makes m the major selection and n the minor
\* selection, whatever they were, writes both to boss_config.json, and leaves
\* running, the state, the target boss, the counters, the channel label, the
\* timers and the threads; nothing else writes to boss_config.json.
C21_UpdateSelection ==
  [][/\ UpdateSelection =>
          /\ boss_config' = [selected_mvps |-> selected_mvps',
                             selected_minis |-> selected_minis']
          /\ UNCHANGED <<running, state, target_boss, target_is_mvp, deaths,
                         bosses_killed, current_channel, boss_timers, pc>>
     /\ boss_config' # boss_config => UpdateSelection]_vars

C21_Witness ==
  /\ running /\ state = "CLICK_GO" /\ target_boss = "Eddga"
  /\ selected_mvps = {} /\ selected_minis = {"Toad"}
  /\ boss_config = [selected_mvps |-> {}, selected_minis |-> {"Toad"}]

\* C22 as stated: while running is true the state comes to be IDLE again,
\* whatever the clicks, the retries, the deaths and the readings of the
\* screen, when no call raises.
C22_EventuallyIdle ==
  running ~> (state = "IDLE" \/ ~running \/ \E w \in Workers : err[w])

\* The edges of the handlers: the state a handler is entered on and the states
\* it sets (src/boss_bot.py 206-661).
Edges ==
  {<<"IDLE", "SWITCH_CH1">>, <<"SWITCH_CH1", "OPEN_PANEL">>,
   <<"OPEN_PANEL", "CHECK_STATUS">>, <<"OPEN_PANEL", "IDLE">>,
   <<"CHECK_STATUS", "CLICK_GO">>, <<"CHECK_STATUS", "IDLE">>,
   <<"CLICK_GO", "START_ATTACK">>, <<"START_ATTACK", "FIGHTING">>,
   <<"FIGHTING", "DEAD">>, <<"FIGHTING", "IDLE">>,
   <<"DEAD", "RESURRECT">>, <<"RESURRECT", "RE_NAVIGATE">>,
   <<"RE_NAVIGATE", "OPEN_PANEL">>, <<"RE_NAVIGATE", "IDLE">>}

\* C23: a step of a thread that changes the state takes it along one of the
\* edges, or to SWITCH_CH1 at the end of the wait for a loading screen.
C23_Edges ==
  [][\A w \in Workers :
       (Alive(w) /\ StepOf(w) /\ state' # state) =>
         \/ <<state, state'>> \in Edges
         \/ pc[w] \in {"load_done", "load_timeout"} /\ state' = "SWITCH_CH1"]_vars

\* C24: the SWITCH_CH1 handler, when the channel number is not "1", clicks the
\* channel button once per attempt up to the first attempt whose popup check
\* succeeds, MAX_RETRIES times when none does, and clicks the target channel
\* after that only when a check succeeded; it sets the channel label only
\* when it has read "1" or clicked the target channel, and it ends by setting
\* the state to OPEN_PANEL.
C24_SwitchHandler ==
  [][\A w \in Workers :
       /\ (pc[w] = "switch" /\ pc'[w] = "switch_set") =>
            LET r == ch_read'
                n == FirstOpened(r.popup)
            IN /\ r.read
               /\ r.num = <<1>> => clicks' = <<>> /\ current_channel' = "CH 1"
               /\ (r.num # <<1>> /\ n = 0) =>
                    /\ clicks' = Rep(MAX_RETRIES, "channel_button")
                    /\ current_channel' = current_channel
               /\ (r.num # <<1>> /\ n > 0) =>
                    /\ clicks' = Rep(n, "channel_button") \o <<"ch1_button">>
                    /\ current_channel' = "CH 1"
               /\ UNCHANGED state
       /\ (pc[w] = "switch_set" /\ StepOf(w)) =>
            state' = "OPEN_PANEL" /\ pc'[w] = "loop" /\ ~err'[w]]_vars

C24_Witness ==
  /\ \E w \in Workers : pc[w] = "switch_set"
  /\ ch_read.num = <<2>> /\ ch_read.popup = <<FALSE, TRUE>>
  /\ clicks = <<"channel_button", "channel_button", "ch1_button">>
  /\ current_channel = "CH 1" /\ state = "SWITCH_CH1" /\ running

\* C25: _ensure_ch1 and the SWITCH_CH1 handler do the same with what they
\* read: for the digit run and the popup checks of a step of either, both
\* take the same channel number, both skip the switch or neither does, and
\* both issue the same clicks, which are the clicks of the step.
C25_SameRule ==
  (ch_read.read /\ \E w \in Workers : pc[w] \in {"switch_set", "go_r2"}) =>
     LET s == SwitchPlan(ch_read.raw, ch_read.popup)
         e == EnsurePlan(ch_read.raw, ch_read.popup)
     IN /\ s.num = e.num /\ ch_read.num = s.num
        /\ s.skip = e.skip
        /\ s.clicks = e.clicks /\ clicks = s.clicks
        /\ s.label = e.label

C25_Witness ==
  /\ \E w \in Workers : pc[w] = "go_r2"
  /\ ch_read.raw = <<2, 1>> /\ ch_read.num = <<2>>
  /\ ch_read.popup = <<FALSE, FALSE, TRUE>>
  /\ clicks = <<"channel_button", "channel_button", "channel_button", "ch1_button">>

\* A step of thread w that scans the rows of the active tab.
ScanStep(w) == pc[w] = "check" /\ pc'[w] \in {"check_set", "check_end"}

\* The fruitless end of a scan: the thread has read the rows of the tab in
\* this tick and none of them names a boss of its targets with "appeared" or
\* "battle".
Fruitless(w) == scan[w] # NoScan /\ FirstAppeared(scan[w], targets[w]) = 0

\* C26 as stated: when the major selection is not empty, the tab whose scan
\* comes first in a check cycle (one that no stop() has cut) is the major tab
\* (the minor tab is scanned first only when the major selection is empty),
\* and the scan of that tab finds no minor boss.
C26_MajorFirst ==
  [][\A w \in Workers :
       (ScanStep(w) /\ opened_tab # None /\ ~everStopped /\ selected_mvps # {}) =>
          /\ opened_tab = "mvp_tab"
          /\ (checking_mvp_tab /\ pc'[w] = "check_set") => target_boss' \in MVP_BOSSES]_vars

C28_RowScan ==
  [][\A w \in Workers :
       ScanStep(w) =>
         LET rows == scan'[w]
             n == FirstAppeared(rows, targets[w])
             read == ocr'[w].ocrs
         IN /\ rows # NoScan
            /\ read = IF n = 0 THEN PAGES * ROWS_PER_PAGE ELSE n
            /\ read <= 8
            /\ ocr'[w].scrolls = IF read > ROWS_PER_PAGE \/ n = 0
                                 THEN <<"scroll_down">> ELSE <<>>
            /\ (pc'[w] = "check_set") <=> (n # 0)
            /\ n # 0 => /\ target_boss' = rows[n].name
                        /\ target_boss' \in targets[w]
                        /\ found_row_idx' = (n - 1) % ROWS_PER_PAGE
                        /\ nxt'[w] = "CLICK_GO"
            /\ n = 0 => target_boss' = target_boss /\ state' = state
            /\ \A p \in Positions :
                 (p < read \/ n = 0) =>
                    ~(rows[p].name \in targets[w] /\ rows[p].marker)]_vars

C28_Witness ==
  \E w \in Workers :
    /\ pc[w] = "check_set" /\ nxt[w] = "CLICK_GO" /\ running
    /\ targets[w] = {"Eddga"} /\ target_boss = "Eddga"
    /\ scan[w][2] = [name |-> "Toad", marker |-> TRUE, timer |-> None]
    /\ scan[w][6] = [name |-> "Eddga", marker |-> TRUE, timer |-> None]
    /\ ocr[w] = [ocrs |-> 6, scrolls |-> <<"scroll_down">>]
    /\ found_row_idx = 1

\* C29: after a death and a resurrection, once _handle_re_navigate has gone
\* back to the panel for the target T and no stop() has been made, the next
\* write of CLICK_GO to the state comes with the target boss T.
C29_SameTarget ==
  [][(state' = "CLICK_GO" /\ state # "CLICK_GO" /\ renav_target # None
        /\ ~everStopped)
       => target_boss' = renav_target]_vars

\* The row whose band holds the calibrated Go button.
GoRow(pos) == (pos.go_y - pos.first_y) \div pos.row_h

\* C30: with a row height h > 0 and the calibrated Go button in the band of
\* its row c (first_y + c*h <= go_y < first_y + (c+1)*h), the Y that
\* _handle_click_go clicks for the found row r is go_y + (r - c)*h, inside
\* the band of row r.
C30_GoRowOffset ==
  (go_click.clicked /\ boss_layout.row_h > 0) =>
     LET h == boss_layout.row_h
         y0 == boss_layout.first_y
         c == GoRow(boss_layout)
         r == found_row_idx
     IN /\ go_click.y = boss_layout.go_y + (r - c) * h
        /\ y0 + r * h <= go_click.y
        /\ go_click.y < y0 + (r + 1) * h

\* The positions of a thread inside _handle_click_go.
GoPositions == {"go", "go_loadwait", "go_r1", "go_ensure", "go_r2", "go_minimap",
                "go_arrive", "go_r3"}

\* The end of a tick of _handle_click_go that no exception has cut.
GoReturns(w) == pc[w] \in GoPositions /\ pc'[w] = "loop" /\ ~err'[w]

C32_MinimapProtocol ==
  [][\A w \in Workers :
       LET c == checks'
           mm == <<"minimap">>
       IN /\ (pc[w] = "go_minimap" /\ pc'[w] = "go_arrive") =>
               /\ Len(c) = 1
               /\ clicks' = IF c[1] THEN <<>> ELSE mm
          /\ (pc[w] = "go_arrive" /\ pc'[w] = "go_arrive") =>
               clicks' = <<>> /\ c = <<>>
          /\ (pc[w] = "go_arrive" /\ pc'[w] = "go_r3") =>
               /\ Len(c) = 1
               /\ clicks' = IF c[1] THEN mm \o mm ELSE mm
          /\ (pc[w] = "attack" /\ pc'[w] = "attack_select") =>
               /\ Len(c) = IF c[1] THEN 2 ELSE 1
               /\ clicks' = (IF ~c[1] THEN <<>>
                             ELSE IF c[2] THEN mm \o mm ELSE mm)
                            \o <<"auto_attack_toggle">>
          /\ (\E i \in DOMAIN clicks' : clicks'[i] = "minimap") =>
               /\ pc[w] \in {"go_minimap", "go_arrive", "attack"}
               /\ Len(clicks') <= 3]_vars

C32_Witness ==
  \E w \in Workers :
    /\ pc[w] = "go_r3" /\ arrival[w].status = "timeout" /\ running
    /\ checks = <<TRUE>> /\ clicks = <<"minimap", "minimap">>

\* C33: a tick of the RESURRECT handler clicks the resurrect button once,
\* checks the death popup, and clicks once more exactly when the popup is
\* still there; it then sets the state to RE_NAVIGATE, whatever the check has
\* given, and the tick ends.
C33_Resurrect ==
  [][\A w \in Workers :
       /\ (pc[w] = "resurrect" /\ StepOf(w) /\ ~err'[w]) =>
            /\ pc'[w] = "resurrect_set" /\ Len(checks') = 1
            /\ clicks' = IF checks'[1] THEN <<"resurrect_button", "resurrect_button">>
                          ELSE <<"resurrect_button">>
            /\ Len(clicks') <= 2 /\ state' = state
       /\ (pc[w] = "resurrect_set" /\ StepOf(w)) =>
            /\ state' = "RE_NAVIGATE" /\ pc'[w] = "loop" /\ ~err'[w]
            /\ clicks' = <<>>]_vars

C33_Witness ==
  \E w \in Workers :
    /\ pc[w] = "resurrect_set" /\ checks = <<TRUE>> /\ running
    /\ clicks = <<"resurrect_button", "resurrect_button">>
    /\ state = "RESURRECT" /\ deaths = 1

\* The states in which a stay in FIGHTING ends.
FightingExits == {"DEAD", "IDLE", "SWITCH_CH1"}

\* C34: under fair scheduling and an advancing clock, every stay of the state
\* in FIGHTING ends in DEAD, IDLE or SWITCH_CH1.
C34_FightingEnds == (state = "FIGHTING") ~> (state \in FightingExits)

\* The point anchors of the "boss" section.
PointKeys == DOMAIN BossSection(Calibrated) \ (SCALAR_KEYS \cup {"panel_scroll_region"})

\* The positions pos are the offsets of the section boss at the origin o.
Translated(pos, boss, o) ==
  /\ DOMAIN pos = DOMAIN boss
  /\ \A key \in PointKeys :
       pos[key] = <<o[1] + boss[key][1], o[2] + boss[key][2]>>
  /\ LET r == pos["panel_scroll_region"]
         c == boss["panel_scroll_region"]
     IN r = <<o[1] + c[1], o[2] + c[2], c[3], c[4]>>
  /\ \A key \in SCALAR_KEYS : pos[key] = boss[key]

\* C35: after a start() or a tick that has found the window at the origin
\* (wx, wy), with a calibrated layout, every point anchor is at (wx + dx,
\* wy + dy) for its offset (dx, dy), the scroll region has its origin
\* translated and its width and height kept, and the scalar entries are
\* those of the layout; when the positions were those of the window at the
\* origin it had and the window is found at an origin that differs from it
\* by a vector, every position moves by that vector; a
\* tick that does not find the window keeps the window and the positions.
C35_AnchorTranslation ==
  [][LET boss == BossSection(boss_layout)
         Found == \/ ~running /\ running'
                  \/ \E w \in Workers : pc[w] = "tick" /\ new_win'[w]
     IN /\ (Found /\ layout' = "ok") =>
             /\ Translated(boss_pos', boss, win')
             /\ (win_set /\ Translated(boss_pos, boss, win)) =>
                  /\ \A key \in PointKeys \cup {"panel_scroll_region"}, i \in 1..2 :
                       boss_pos'[key][i] - boss_pos[key][i] = win'[i] - win[i]
                  /\ \A i \in 3..4 : boss_pos'["panel_scroll_region"][i]
                                        = boss_pos["panel_scroll_region"][i]
                  /\ \A key \in SCALAR_KEYS : boss_pos'[key] = boss_pos[key]
        /\ (\E w \in Workers : pc[w] = "tick" /\ pc'[w] = "tick_load" /\ ~new_win'[w]) =>
             boss_pos' = boss_pos /\ win' = win]_vars

C35_Witness ==
  \E w \in Workers :
    /\ pc[w] = "tick_load" /\ new_win[w] /\ running /\ layout = "ok"
    /\ win = <<1, 1>>
    /\ boss_pos["go_button"] = <<3, 2>>
    /\ boss_pos["panel_scroll_region"] = <<1, 1, 2, 12>>
    /\ boss_pos["row_height"] = 3

\* C36: once stop() has been made and every thread has left the loop, the
\* state is IDLE and the target boss is null.
C36_StoppedIdle ==
  (everStopped /\ ~running /\ \A w \in Workers : ~Alive(w)) =>
     (state = "IDLE" /\ target_boss = None)

\* C37: whenever the monster-list selection of the START_ATTACK handler runs,
\* the target boss is non-null, so a click of the selection is on a row that
\* holds the name of a boss.
C37_SelectionHasTarget ==
  [][\A w \in Workers :
       (pc[w] = "attack_select" /\ pc'[w] = "attack_set") =>
         /\ target_boss # None
         /\ clicks' # <<>> => \E b \in ALL_BOSSES : clicks' = <<EntryLabel(b)>>]_vars

\* C38: the channel label is "?" or "CH 1" in every state, and once it is
\* "CH 1" no step changes it, also not a tick that reads another channel and
\* fails to open the channel modal.
C38_ChannelLabel ==
  [][/\ current_channel \in {"?", "CH 1"}
     /\ current_channel' \in {"?", "CH 1"}
     /\ current_channel = "CH 1" => current_channel' = "CH 1"]_vars

\* The label is "CH 1" at the end of a SWITCH_CH1 tick that has read another
\* channel and has seen the modal closed at each of its attempts.
C38_Witness ==
  \E w \in Workers :
    /\ pc[w] = "switch_set" /\ current_channel = "CH 1"
    /\ ch_read.read /\ ch_read.num = <<2>>
    /\ ch_read.popup = Rep(MAX_RETRIES, FALSE)

\* C39: the cumulative kill counter is 0 in every reachable state.
C39_NoKillCounted == bosses_killed = 0

\* A FIGHTING handler has timed out, has cleared the target and has gone back
\* to IDLE, and the kill counter is still 0.
C39_Witness ==
  /\ running /\ state = "IDLE" /\ target_boss = None /\ bosses_killed = 0
  /\ \E w \in Workers : pc[w] = "loop" /\ k[w] > FightingTimeout /\ wrote[w]
====
